---- MODULE Spec2Model ----
(***************************************************************************)
(* A model of the OAuth compatibility layer of the Fastmail MCP server     *)
(* (src/auth.py, src/server.py).                                           *)
(*                                                                         *)
(* Python dicts are functions from string keys to values; a key that is    *)
(* absent from the dict is absent from the function's DOMAIN.  Strings     *)
(* that the code scans (URLs, request paths) are sequences of characters.  *)
(***************************************************************************)
EXTENDS Integers, Sequences, FiniteSets, TLC

VARIABLES
    \* ---- metadata cache and the AS-metadata endpoint (auth.py 15-66)
    cognito_metadata_cache, \* the module global _cognito_metadata_cache
    pc,                     \* per request: "new", "await_get", "done"
    method,                 \* per request: its HTTP method
    response,               \* per request: None or the response sent
    gets,                   \* per request: upstream GETs it has issued
    began,                  \* per request: the cache as it was when the call began
    before,                 \* per request: the requests answered before it began
    reply_got,              \* per request: None or the upstream reply to its GET
    \* ---- augmentation of one upstream document (auth.py 32-54)
    aug_in,                 \* the upstream reply and the configured base URL
    aug_out,                \* None or the response served from it
    \* ---- dynamic client registration (auth.py 69-117)
    environ,                \* os.environ: the configured client credentials
    dcr_request,            \* None or the last request to /oauth/register
    dcr_response,           \* None or the response to it
    dcr_log,                \* the credentials handed out so far, per requested method
    \* ---- SlashNormalizationMiddleware (auth.py 120-134)
    scope,                  \* the ASGI scope the server hands to the middleware
    app_scope,              \* None or the scope the downstream app was called with
    app_calls,              \* calls of the downstream app
    sub_calls,              \* calls of _DOUBLE_SLASH_RE.sub
    \* ---- CognitoAuthProvider.get_routes (auth.py 137-202)
    self_base_url,          \* self.base_url: None or the configured URL
    mcp_path,               \* the mcp_path argument: None or a path
    super_routes,           \* what super().get_routes(mcp_path) returns
    routes,                 \* None or the list get_routes returned
    root_response,          \* None or the answer to GET /.well-known/oauth-protected-resource
    \* ---- the shared JMAPClient and the tools (jmap_client.py, tools.py)
    api_url,                \* jmap.api_url: None or the cached API URL
    account_id,             \* jmap.account_id: None or the cached account ID
    task                    \* per tool invocation: its position and its locals

metaVars ==
    <<cognito_metadata_cache, pc, method, response, gets, began, before, reply_got>>
augVars == <<aug_in, aug_out>>
dcrVars == <<environ, dcr_request, dcr_response, dcr_log>>
pathVars == <<scope, app_scope, app_calls, sub_calls>>
routeVars == <<self_base_url, mcp_path, super_routes, routes, root_response>>
jmapVars == <<api_url, account_id, task>>
vars == <<metaVars, augVars, dcrVars, pathVars, routeVars, jmapVars>>

-----------------------------------------------------------------------------
(* Bounds of the model. *)

MaxRequests == 3        \* concurrent requests to the AS-metadata endpoint
MaxRespTypes == 3       \* longest upstream response_types_supported list
MaxPathLen == 7         \* longest request path, in characters
MaxTrailingSlashes == 2 \* most separators a configured base URL ends with
MaxSuperRoutes == 2     \* most routes the base provider contributes
MaxTasks == 2           \* concurrent tool invocations sharing the JMAPClient

-----------------------------------------------------------------------------
(* Python values. *)

None == [py_none |-> TRUE]

EmptyDict == [k \in {} |-> TRUE]

\* d.get(k, default)
Get(d, k, default) == IF k \in DOMAIN d THEN d[k] ELSE default

\* d[k] = v
Put(d, k, v) == [x \in (DOMAIN d) \cup {k} |-> IF x = k THEN v ELSE d[x]]

\* bool(x) of a value that is None or a dict
Truthy(x) == x # None /\ DOMAIN x # {}

\* the number of occurrences of v in the list s
Count(s, v) == Cardinality({i \in DOMAIN s : s[i] = v})

\* an optional value that is not None
Some(v) == [val |-> v]

SeqsUpTo(S, n) == UNION {[1..k -> S] : k \in 0..n}

-----------------------------------------------------------------------------
(* Configuration read from the environment by _get_cognito_metadata. *)

MCP_RESOURCE_URL == "https://mcp.example.ts.net"

BaseUrls == {MCP_RESOURCE_URL, "https://other.example"}

-----------------------------------------------------------------------------
(* What the identity provider can answer to the GET of                      *)
(* {issuer}/.well-known/openid-configuration.                               *)

Issuers == {"https://cognito.example/pool", MCP_RESOURCE_URL}

ResponseTypes == {"code", "token"}

\* The discovery documents: with and without response_types_supported, with
\* and without a code_challenge_methods_supported of their own.
UpstreamDocs ==
    LET core == {[issuer |-> i, token_endpoint |-> i \o "/oauth2/token"] : i \in Issuers}
        withRt == core \cup
                  {Put(d, "response_types_supported", rt) :
                       d \in core, rt \in SeqsUpTo(ResponseTypes, MaxRespTypes)}
    IN  withRt \cup {Put(d, "code_challenge_methods_supported", <<"plain">>) : d \in withRt}

\* The few documents the concurrent model lets the provider answer with.
MetaDocs ==
    {[issuer |-> "https://cognito.example/pool", token_endpoint |-> "t1"],
     [issuer |-> "https://cognito.example/pool", token_endpoint |-> "t2",
      response_types_supported |-> <<"code", "token">>]}

ErrorBody == [message |-> "Internal Server Error"]

Replies(docs) ==
    {[kind |-> "response", status |-> 200, json |-> D] : D \in docs}
    \cup {[kind |-> "response", status |-> s, json |-> ErrorBody] : s \in {404, 500}}
    \cup {[kind |-> "network_error", status |-> 0, json |-> ErrorBody]}

-----------------------------------------------------------------------------
(* _get_cognito_metadata, auth.py 21-54. *)

CachedNever(cache) == FALSE

\* line 24: if _cognito_metadata_cache:
Cached(cache) == Truthy(cache)

raise_for_status_never(reply) == FALSE

\* lines 30-31: client.get raises on a network error, r.raise_for_status()
\* raises on every status that is not a success (2xx)
raise_for_status(reply) ==
    reply.kind = "network_error" \/ reply.status \notin 200..299

AppendCodeAlways(metadata) ==
    Put(metadata, "response_types_supported",
        Append(Get(metadata, "response_types_supported", <<>>), "code"))

\* lines 42-43
AppendCode(metadata) ==
    IF Count(Get(metadata, "response_types_supported", <<>>), "code") = 0
    THEN Put(metadata, "response_types_supported",
             Append(Get(metadata, "response_types_supported", <<>>), "code"))
    ELSE metadata

\* lines 34-51: the upstream document D augmented for MCP clients
Augment(D, base_url) ==
    LET m1 == Put(D, "code_challenge_methods_supported", <<"S256">>)
        m2 == Put(m1, "grant_types_supported", <<"authorization_code", "refresh_token">>)
        m3 == Put(m2, "token_endpoint_auth_methods_supported",
                  <<"client_secret_basic", "client_secret_post", "none">>)
        m4 == AppendCode(m3)
        m5 == Put(m4, "registration_endpoint", base_url \o "/oauth/register")
    IN  Put(m5, "issuer", base_url)

\* _oauth_authorization_server_metadata, lines 60-66
MetadataResponse(metadata) ==
    [status |-> 200, body |-> metadata,
     headers |-> [allow_origin |-> "*", allow_methods |-> "GET, OPTIONS"]]

\* an exception that leaves the handler becomes the framework's 500
ServerError == [status |-> 500, body |-> EmptyDict, headers |-> EmptyDict]

Reqs == 1..MaxRequests

\* Request r reaches the endpoint (the route accepts GET and OPTIONS, lines
\* 185-191) and the handler calls _get_cognito_metadata, which runs to its
\* return (cache hit) or to the await of the upstream GET.
GetMetadataBegin(r, m) ==
    /\ pc[r] = "new"
    /\ method' = [method EXCEPT ![r] = m]
    /\ began' = [began EXCEPT ![r] = cognito_metadata_cache]
    /\ before' = [before EXCEPT ![r] = {q \in Reqs : pc[q] = "done"}]
    /\ IF Cached(cognito_metadata_cache)
       THEN /\ response' = [response EXCEPT ![r] = MetadataResponse(cognito_metadata_cache)]
            /\ pc' = [pc EXCEPT ![r] = "done"]
            /\ gets' = gets
       ELSE /\ gets' = [gets EXCEPT ![r] = @ + 1]
            /\ pc' = [pc EXCEPT ![r] = "await_get"]
            /\ response' = response
    /\ UNCHANGED <<cognito_metadata_cache, reply_got, augVars, dcrVars, pathVars, routeVars, jmapVars>>

\* The upstream GET of request r completes with reply; the rest of
\* _get_cognito_metadata and of the handler run without suspending on
\* shared state.
GetMetadataResume(r, reply) ==
    /\ pc[r] = "await_get"
    /\ pc' = [pc EXCEPT ![r] = "done"]
    /\ reply_got' = [reply_got EXCEPT ![r] = reply]
    /\ IF raise_for_status(reply)
       THEN /\ response' = [response EXCEPT ![r] = ServerError]
            /\ UNCHANGED cognito_metadata_cache
       ELSE LET metadata == Augment(reply.json, MCP_RESOURCE_URL)
            IN  /\ cognito_metadata_cache' = metadata
                /\ response' = [response EXCEPT ![r] = MetadataResponse(metadata)]
    /\ UNCHANGED <<method, gets, began, before, augVars, dcrVars, pathVars, routeVars, jmapVars>>

\* Each specification below runs one component; the state of the others
\* stays as it is before they are used.
AugIdle == aug_in = None /\ aug_out = None

DcrIdle ==
    environ = None /\ dcr_request = None /\ dcr_response = None /\ dcr_log = {}

PathIdle == scope = None /\ app_scope = None /\ app_calls = 0 /\ sub_calls = 0

RouteIdle ==
    /\ self_base_url = None /\ mcp_path = None /\ super_routes = <<>>
    /\ routes = None /\ root_response = None

Tasks == 1..MaxTasks

\* the value of a local that has not been assigned yet
Unset == [unset |-> TRUE]

\* The locals of a tool invocation: where it is, its arguments, what
\* _ensure_account returned, the body jmap.call builds, the calls of
\* jmap.call, the POSTs sent and the statuses they got, the discoveries
\* jmap.call made, what the rediscovery found, and how the tool ended.
NewTask(args) ==
    [pc |-> "idle", args |-> args, acct |-> Unset, body |-> None, calls |-> 0,
     posts |-> <<>>, statuses |-> <<>>, discs |-> 0, redisc |-> None,
     result |-> None]

JmapIdle ==
    /\ api_url = None
    /\ account_id = None
    /\ task = [t \in Tasks |-> NewTask([tool |-> "list_mailboxes"])]

MetaIdle ==
    /\ cognito_metadata_cache = None
    /\ pc = [r \in Reqs |-> "new"]
    /\ method = [r \in Reqs |-> "GET"]
    /\ response = [r \in Reqs |-> None]
    /\ gets = [r \in Reqs |-> 0]
    /\ began = [r \in Reqs |-> None]
    /\ before = [r \in Reqs |-> {}]
    /\ reply_got = [r \in Reqs |-> None]

MetaInit ==
    /\ MetaIdle
    /\ AugIdle
    /\ DcrIdle
    /\ PathIdle
    /\ RouteIdle
    /\ JmapIdle

MetaNext ==
    \/ \E r \in Reqs, m \in {"GET", "OPTIONS"} : GetMetadataBegin(r, m)
    \/ \E r \in Reqs, reply \in Replies(MetaDocs) : GetMetadataResume(r, reply)

SpecMeta == MetaInit /\ [][MetaNext]_vars

-----------------------------------------------------------------------------
(* Properties of the metadata cache. *)

RECURSIVE SumGets(_)
SumGets(n) == IF n = 0 THEN 0 ELSE gets[n] + SumGets(n - 1)

\* the upstream GETs issued so far
TotalGets == SumGets(MaxRequests)

\* request q was answered from a document that q fetched and stored
StoredBy(q) ==
    /\ pc[q] = "done" /\ gets[q] > 0
    /\ response[q].status = 200
    /\ cognito_metadata_cache # None

\* the upstream GET of request q failed: a network error or a status that
\* is not 2xx
UpstreamFailed(q) ==
    /\ reply_got[q] # None
    /\ \/ reply_got[q].kind = "network_error"
       \/ reply_got[q].status \notin 200..299

\* C1: once a call has completed successfully and stored the document, every
\* call that begins afterwards is answered with the cached document and
\* issues no upstream GET; the upstream GETs never outnumber the calls that
\* began while the cache was empty.
MetadataCacheHit ==
    /\ \A r \in Reqs : \A q \in before[r] :
           (pc[r] # "new" /\ reply_got[q] # None /\ ~UpstreamFailed(q)) =>
               /\ gets[r] = 0
               /\ pc[r] = "done"
               /\ response[r].status = 200
               /\ response[r].body = began[r]
               /\ began[r] # None
    /\ TotalGets <= Cardinality({r \in Reqs : pc[r] # "new" /\ began[r] = None})

MetadataCacheHitWitness ==
    \E r \in Reqs : \E q \in before[r] :
        /\ StoredBy(q)
        /\ pc[r] = "done" /\ gets[r] = 0
        /\ response[r].body = cognito_metadata_cache

\* C2: once populated, the cache is never invalidated, replaced or
\* refreshed, whatever the interleaving of the requests.
MetadataCacheStable ==
    [][cognito_metadata_cache # None =>
           cognito_metadata_cache' = cognito_metadata_cache]_vars

\* C3: a failed upstream GET fails the request that issued it (a server
\* error, after that one GET and no other), leaves the cache as it was, and
\* every request that begins while the cache is still unpopulated, the ones
\* after a failure included, issues an upstream GET of its own.
FailedFetchStep ==
    \A r \in Reqs :
        (pc[r] = "await_get" /\ pc'[r] = "done" /\ UpstreamFailed(r)') =>
            /\ response'[r] = ServerError
            /\ gets'[r] = 1
            /\ cognito_metadata_cache' = cognito_metadata_cache

FailedFetchState ==
    \A r \in Reqs :
        /\ (pc[r] = "done" /\ UpstreamFailed(r)) =>
               (response[r] = ServerError /\ gets[r] = 1)
        /\ (pc[r] # "new" /\ began[r] = None) => gets[r] = 1
        /\ (\A q \in Reqs : pc[q] = "done" => UpstreamFailed(q)) =>
               cognito_metadata_cache = None

FailedFetch == [][FailedFetchStep]_vars /\ []FailedFetchState

FailedFetchWitness ==
    \E r \in Reqs : \E q \in before[r] :
        /\ UpstreamFailed(q) /\ response[q] = ServerError
        /\ began[r] = None /\ gets[r] = 1 /\ pc[r] = "await_get"
        /\ cognito_metadata_cache = None

\* C5: an OPTIONS request to the AS-metadata endpoint is answered with an
\* empty 200 and never touches the cache: it issues no upstream GET and
\* leaves the cache as it found it.
OptionsShortCircuit ==
    \A r \in Reqs :
        (pc[r] # "new" /\ method[r] = "OPTIONS") =>
            /\ gets[r] = 0
            /\ pc[r] = "done"
            /\ response[r].status = 200
            /\ response[r].body = EmptyDict

-----------------------------------------------------------------------------
(* The augmentation of one upstream document: a GET of the AS-metadata      *)
(* endpoint on an empty cache, the provider answering 200 with aug_in.doc.  *)

AugInit ==
    /\ aug_in \in [doc : UpstreamDocs, base_url : BaseUrls]
    /\ aug_out = None
    /\ MetaIdle
    /\ DcrIdle
    /\ PathIdle
    /\ RouteIdle
    /\ JmapIdle

ServeAugmented ==
    /\ aug_out = None
    /\ aug_out' = MetadataResponse(Augment(aug_in.doc, aug_in.base_url))
    /\ UNCHANGED <<aug_in, metaVars, dcrVars, pathVars, routeVars, jmapVars>>

AugNext == ServeAugmented

SpecAugment == AugInit /\ [][AugNext]_vars

\* C4: whatever the upstream document (with or without
\* response_types_supported, with or without "code" in it, whatever its
\* issuer), the metadata served has code_challenge_methods_supported =
\* ["S256"], has "code" in response_types_supported, added only when it was
\* not there (a list that had it is served as it was), and has the server's
\* base URL as issuer.
AugmentedMetadata ==
    aug_out # None =>
        LET D == aug_in.doc
            M == aug_out.body
            rt_in == Get(D, "response_types_supported", <<>>)
            rt_out == M["response_types_supported"]
        IN  /\ aug_out.status = 200
            /\ M["code_challenge_methods_supported"] = <<"S256">>
            /\ Count(rt_out, "code") >= 1
            /\ Count(rt_in, "code") >= 1 => rt_out = rt_in
            /\ Count(rt_in, "code") = 0 =>
                   /\ Count(rt_out, "code") = 1
                   /\ Len(rt_out) = Len(rt_in) + 1
                   /\ \A t \in ResponseTypes \ {"code"} : Count(rt_out, t) = Count(rt_in, t)
            /\ M["issuer"] = aug_in.base_url

AugmentedMetadataWitness ==
    /\ aug_out # None
    /\ "response_types_supported" \in DOMAIN aug_in.doc
    /\ Count(aug_in.doc["response_types_supported"], "code") = 2
    /\ "code_challenge_methods_supported" \in DOMAIN aug_in.doc
    /\ aug_in.doc["issuer"] # aug_in.base_url
    /\ aug_out.body["issuer"] = aug_in.base_url

-----------------------------------------------------------------------------
(* _oauth_register, auth.py 69-117. *)

PublicClientId == "public-client-id"
ConfidentialClientId == "confidential-client-id"

\* The environments the server can run in: both client IDs are required,
\* COGNITO_CLIENT_SECRET is optional and may be set to the empty string.
Environs ==
    LET ids == [COGNITO_PUBLIC_CLIENT_ID |-> PublicClientId,
                COGNITO_AUDIENCE |-> ConfidentialClientId]
    IN  {ids} \cup {Put(ids, "COGNITO_CLIENT_SECRET", v) : v \in {"", "s3cr3t"}}

\* The JSON objects a client can send: each field present or absent.
DcrObjects ==
    LET withUris == {EmptyDict} \cup
                    {Put(EmptyDict, "redirect_uris", u) : u \in {<<>>, <<"https://x/y">>}}
        withName == withUris \cup {Put(d, "client_name", "claude") : d \in withUris}
    IN  withName \cup
        {Put(d, "token_endpoint_auth_method", t) :
             d \in withName,
             t \in {"none", "None", "", "client_secret_basic", "client_secret_post"}}

\* The bodies of a request: a JSON object, a JSON value that is no object,
\* or bytes that are no JSON at all (the empty body among them).
DcrBodies ==
    {[kind |-> "object", json |-> d] : d \in DcrObjects}
    \cup {[kind |-> "array", json |-> EmptyDict], [kind |-> "invalid", json |-> EmptyDict]}

DcrRequests == [method : {"POST", "OPTIONS"}, body : DcrBodies]

\* lines 107-108, with the secret handed to every caller
IncludeSecretAlways(env, token_auth_method) ==
    "COGNITO_CLIENT_SECRET" \in DOMAIN env /\ env["COGNITO_CLIENT_SECRET"] # ""

\* lines 107-108: client_secret = os.environ.get(...);
\* if client_secret and token_auth_method != "none"
IncludeSecret(env, token_auth_method) ==
    /\ "COGNITO_CLIENT_SECRET" \in DOMAIN env
    /\ env["COGNITO_CLIENT_SECRET"] # ""
    /\ token_auth_method # "none"

\* lines 92-95
SelectClientId(env, token_auth_method) ==
    IF token_auth_method = "none"
    THEN env["COGNITO_PUBLIC_CLIENT_ID"]
    ELSE env["COGNITO_AUDIENCE"]

\* lines 75-83
PreflightResponse ==
    [status |-> 200, body |-> EmptyDict,
     headers |-> [allow_origin |-> "*", allow_methods |-> "POST, OPTIONS",
                  allow_headers |-> "Content-Type"]]

\* a responder that keeps the confidential client for the clients that
\* name themselves
RegisterObjectByName(env, body) ==
    LET redirect_uris == Get(body, "redirect_uris", <<>>)
        client_name == Get(body, "client_name", "unknown")
        token_auth_method == Get(body, "token_endpoint_auth_method", "none")
        resp == [client_id |-> IF client_name = "unknown"
                               THEN env["COGNITO_PUBLIC_CLIENT_ID"]
                               ELSE SelectClientId(env, token_auth_method),
                 client_name |-> client_name,
                 redirect_uris |-> redirect_uris,
                 grant_types |-> <<"authorization_code", "refresh_token">>,
                 response_types |-> <<"code">>,
                 token_endpoint_auth_method |-> token_auth_method]
    IN  [status |-> 201,
         body |-> IF IncludeSecret(env, token_auth_method)
                  THEN Put(resp, "client_secret", env["COGNITO_CLIENT_SECRET"])
                  ELSE resp,
         headers |-> [allow_origin |-> "*"]]

\* lines 86-117, for a body that request.json() parsed into a dict
RegisterObject(env, body) ==
    LET redirect_uris == Get(body, "redirect_uris", <<>>)
        client_name == Get(body, "client_name", "unknown")
        token_auth_method == Get(body, "token_endpoint_auth_method", "none")
        resp == [client_id |-> SelectClientId(env, token_auth_method),
                 client_name |-> client_name,
                 redirect_uris |-> redirect_uris,
                 grant_types |-> <<"authorization_code", "refresh_token">>,
                 response_types |-> <<"code">>,
                 token_endpoint_auth_method |-> token_auth_method]
    IN  [status |-> 201,
         body |-> IF IncludeSecret(env, token_auth_method)
                  THEN Put(resp, "client_secret", env["COGNITO_CLIENT_SECRET"])
                  ELSE resp,
         headers |-> [allow_origin |-> "*"]]

\* lines 69-117: request.json() raises on bytes that are no JSON (line 85)
\* and body.get raises on a JSON value that is no object (line 86)
oauth_register(env, request) ==
    IF request.method = "OPTIONS" THEN PreflightResponse
    ELSE IF request.body.kind # "object" THEN ServerError
    ELSE RegisterObject(env, request.body.json)

\* what a registration handed out: the method the client asked for (None
\* when the body names none) and the credentials of the response
Issued(request, resp) ==
    [method |-> IF "token_endpoint_auth_method" \in DOMAIN request.body.json
                THEN Some(request.body.json["token_endpoint_auth_method"])
                ELSE None,
     client_id |-> resp.body["client_id"],
     client_secret |-> IF "client_secret" \in DOMAIN resp.body
                       THEN Some(resp.body["client_secret"])
                       ELSE None]

\* The server handles one request to /oauth/register.  The handler reads
\* the environment and writes no state of the process; dcr_log records what
\* the registrations returned.
Register(request) ==
    /\ dcr_request' = request
    /\ dcr_response' = oauth_register(environ, request)
    /\ dcr_log' = IF dcr_response'.status = 201
                  THEN dcr_log \cup {Issued(request, dcr_response')}
                  ELSE dcr_log
    /\ UNCHANGED <<environ, metaVars, augVars, pathVars, routeVars, jmapVars>>

DcrInit ==
    /\ environ \in Environs
    /\ dcr_request = None
    /\ dcr_response = None
    /\ dcr_log = {}
    /\ MetaIdle
    /\ AugIdle
    /\ PathIdle
    /\ RouteIdle
    /\ JmapIdle

DcrNext == \E request \in DcrRequests : Register(request)

SpecDcr == DcrInit /\ [][DcrNext]_vars

SecretConfigured ==
    "COGNITO_CLIENT_SECRET" \in DOMAIN environ /\ environ["COGNITO_CLIENT_SECRET"] # ""

\* a registration was handled: a POST whose body is a JSON object
Registered ==
    /\ dcr_request # None
    /\ dcr_request.method = "POST"
    /\ dcr_request.body.kind = "object"

\* C6: a registration whose token_endpoint_auth_method is "none" or absent
\* is answered with the public client ID and no client_secret key, also
\* when a secret is configured; with any other method it is answered with
\* the confidential client ID, and with the client_secret exactly when a
\* (non-empty) secret is configured.
DcrCredentialSelection ==
    Registered =>
        LET sent == dcr_request.body.json
            out == dcr_response.body
            public == \/ "token_endpoint_auth_method" \notin DOMAIN sent
                      \/ sent["token_endpoint_auth_method"] = "none"
        IN  IF public
            THEN /\ out["client_id"] = PublicClientId
                 /\ "client_secret" \notin DOMAIN out
            ELSE /\ out["client_id"] = ConfidentialClientId
                 /\ "client_secret" \in DOMAIN out <=> SecretConfigured
                 /\ "client_secret" \in DOMAIN out =>
                        out["client_secret"] = environ["COGNITO_CLIENT_SECRET"]

DcrCredentialSelectionWitness ==
    /\ Registered
    /\ SecretConfigured
    /\ "token_endpoint_auth_method" \notin DOMAIN dcr_request.body.json
    /\ dcr_response.body["client_id"] = PublicClientId

\* C11: registrations that ask for the same token_endpoint_auth_method get
\* the same client_id and client_secret, whatever their redirect_uris and
\* client_name and whatever was handled in between; handling a request to
\* the endpoint changes no state of the process.
DcrLogConsistent ==
    \A a, b \in dcr_log :
        a.method = b.method =>
            (a.client_id = b.client_id /\ a.client_secret = b.client_secret)

DcrStateless ==
    /\ environ' = environ
    /\ cognito_metadata_cache' = cognito_metadata_cache

DcrDeterministic == []DcrLogConsistent /\ [][DcrStateless]_vars

DcrDeterministicWitness ==
    /\ Cardinality(dcr_log) = 6
    /\ Registered
    /\ "client_name" \in DOMAIN dcr_request.body.json
    /\ "redirect_uris" \notin DOMAIN dcr_request.body.json
    /\ SecretConfigured

\* C7: a POST to /oauth/register is answered 201 whatever its body, with
\* the defaults in place of the fields it lacks; the registration path has
\* no error outcome.
DcrAlwaysCreated ==
    (dcr_request # None /\ dcr_request.method = "POST") =>
        /\ dcr_response.status = 201
        /\ \A k \in {"redirect_uris", "client_name", "token_endpoint_auth_method"} :
               k \in DOMAIN dcr_response.body

-----------------------------------------------------------------------------
(* SlashNormalizationMiddleware, auth.py 120-134, installed around the     *)
(* whole app by mcp.run (server.py 32-37).  A path is its characters.      *)

PathChars == {"/", "a", "b"}

Paths == SeqsUpTo(PathChars, MaxPathLen)

\* The scopes an ASGI server hands to the app: HTTP requests and WebSocket
\* connections carry a path, the lifespan scope does not.
Scopes ==
    [type : {"http", "websocket"}, path : Paths] \cup {[type |-> "lifespan"]}

\* line 132: "//" in scope["path"]
HasDoubleSlash(path) ==
    \E i \in 1..(Len(path) - 1) : path[i] = "/" /\ path[i + 1] = "/"

\* the number of "/" that path starts with
LeadingSlashes(path) ==
    IF path = <<>> \/ path[1] # "/" THEN 0
    ELSE CHOOSE n \in 1..Len(path) :
             /\ \A i \in 1..n : path[i] = "/"
             /\ n = Len(path) \/ path[n + 1] # "/"

\* the match of a pattern that takes two separators and no more
MatchLenPair(path) == IF LeadingSlashes(path) >= 2 THEN 2 ELSE 0

\* line 18: the length of the match of /{2,} at the start of path (greedy:
\* the whole run), 0 when it does not match there
MatchLen(path) == IF LeadingSlashes(path) >= 2 THEN LeadingSlashes(path) ELSE 0

\* line 133: _DOUBLE_SLASH_RE.sub("/", path): left to right, every match is
\* replaced by "/", every other character is copied
RECURSIVE DoubleSlashSub(_)
DoubleSlashSub(path) ==
    IF path = <<>> THEN <<>>
    ELSE IF MatchLen(path) > 0
         THEN <<"/">> \o DoubleSlashSub(SubSeq(path, MatchLen(path) + 1, Len(path)))
         ELSE <<Head(path)>> \o DoubleSlashSub(Tail(path))

\* lines 131-134: __call__ on the scope of one request
SlashNormalizationCall ==
    /\ app_calls = 0
    /\ IF scope.type = "http" /\ HasDoubleSlash(scope.path)
       THEN /\ app_scope' = [scope EXCEPT !.path = DoubleSlashSub(scope.path)]
            /\ sub_calls' = sub_calls + 1
       ELSE /\ app_scope' = scope
            /\ sub_calls' = sub_calls
    /\ app_calls' = app_calls + 1
    /\ UNCHANGED <<scope, metaVars, augVars, dcrVars, routeVars, jmapVars>>

PathInit ==
    /\ scope \in Scopes
    /\ app_scope = None
    /\ app_calls = 0
    /\ sub_calls = 0
    /\ MetaIdle
    /\ AugIdle
    /\ DcrIdle
    /\ RouteIdle
    /\ JmapIdle

PathNext == SlashNormalizationCall

SpecPath == PathInit /\ [][PathNext]_vars

\* the positions of path that are not a "/" right after a "/"
KeptPositions(path) ==
    {i \in 1..Len(path) : ~(path[i] = "/" /\ i > 1 /\ path[i - 1] = "/")}

\* out is path with every run of "/" reduced to its first character
IsCollapsed(path, out) ==
    LET K == KeptPositions(path)
    IN  /\ Len(out) = Cardinality(K)
        /\ \A i \in K : out[Cardinality({k \in K : k <= i})] = path[i]

ExamplePath == <<"/", "/", "a", "/", "/", "/", "b">>

\* C8: for every HTTP request the downstream app is called exactly once, with
\* a path in which every run of two or more "/" is one "/" ("//a///b" is
\* "/a/b") and nothing else is changed; a path with no doubled separator is
\* handed on as it is, without the substitution being run.
PathNormalized ==
    /\ app_calls <= 1
    /\ app_scope = None <=> app_calls = 0
    /\ (app_scope # None /\ scope.type = "http") =>
           /\ app_calls = 1
           /\ app_scope.type = "http"
           /\ ~HasDoubleSlash(app_scope.path)
           /\ IsCollapsed(scope.path, app_scope.path)
           /\ scope.path = ExamplePath => app_scope.path = <<"/", "a", "/", "b">>
           /\ ~HasDoubleSlash(scope.path) => (app_scope = scope /\ sub_calls = 0)
           /\ HasDoubleSlash(scope.path) => sub_calls = 1

PathNormalizedWitness ==
    /\ app_calls = 1
    /\ scope.type = "http"
    /\ scope.path = ExamplePath
    /\ app_scope.path = <<"/", "a", "/", "b">>

-----------------------------------------------------------------------------
(* CognitoAuthProvider.get_routes and the root protected-resource route,   *)
(* auth.py 137-202.  A URL is the sequence of its scheme, its host and the *)
(* characters of its path.                                                 *)

Slashes(k) == [i \in 1..k |-> "/"]

Origin == <<"https://", "h">>

\* The base URLs a deployment can configure: an origin, with or without a
\* path, ending with any number of separators.
ConfiguredUrls ==
    {Origin \o p \o Slashes(k) : p \in {<<>>, <<"/", "p">>}, k \in 0..MaxTrailingSlashes}

\* The mount paths the transport passes to get_routes.
McpPaths == {<<>>, <<"/", "m">>, <<"/", "m", "/", "v">>}

\* line 161, str(self.base_url): the URL type gives a URL with no path the
\* path "/" (lines 123-125)
UrlStr(url) == IF url = Origin THEN url \o <<"/">> ELSE url

\* the last position of s that holds no "/", 0 when there is none
LastNonSlash(s) ==
    IF \A i \in 1..Len(s) : s[i] = "/" THEN 0
    ELSE CHOOSE i \in 1..Len(s) :
             s[i] # "/" /\ \A j \in (i + 1)..Len(s) : s[j] = "/"

\* a strip that takes one trailing separator only
rstrip_one(s) ==
    IF s # <<>> /\ s[Len(s)] = "/" THEN SubSeq(s, 1, Len(s) - 1) ELSE s

\* line 161: .rstrip("/")
rstrip(s) == SubSeq(s, 1, LastNonSlash(s))

\* lines 137-144
protected_resource_metadata_json(url, path) ==
    [resource |-> url \o path,
     authorization_servers |-> <<url>>,
     scopes_supported |-> <<>>,
     bearer_methods_supported |-> <<"header">>]

RootPath == "/.well-known/oauth-protected-resource"

\* lines 164-182: the route and the document its endpoint closes over
RootRoute(metadata) ==
    [path |-> RootPath, endpoint |-> "_root_protected_resource",
     methods |-> {"GET", "OPTIONS"}, metadata |-> metadata]

\* lines 185-191
AsMetadataRoute ==
    [path |-> "/.well-known/oauth-authorization-server",
     endpoint |-> "_oauth_authorization_server_metadata",
     methods |-> {"GET", "OPTIONS"}]

\* lines 194-200
RegisterRoute ==
    [path |-> "/oauth/register", endpoint |-> "_oauth_register",
     methods |-> {"POST", "OPTIONS"}]

\* line 158: the routes of the base provider, whatever they are
SuperRoutes ==
    {[path |-> RootPath \o "/mcp", endpoint |-> "protected_resource_metadata",
      methods |-> {"GET", "OPTIONS"}],
     [path |-> "/other", endpoint |-> "other", methods |-> {"GET"}]}

\* the guard with mcp_path tested for None instead of for truth
HasRootRouteNotNone(url, path) == url # None /\ path # None

\* line 160: if self.base_url and mcp_path (a URL object is always true, a
\* path is true when it is not empty)
HasRootRoute(url, path) == url # None /\ path # None /\ path.val # <<>>

\* lines 157-202
get_routes(url, path, super) ==
    LET root == IF HasRootRoute(url, path)
                THEN <<RootRoute(protected_resource_metadata_json(
                                     rstrip(UrlStr(url.val)), path.val))>>
                ELSE <<>>
    IN  super \o root \o <<AsMetadataRoute, RegisterRoute>>

GetRoutes ==
    /\ routes = None
    /\ routes' = Some(get_routes(self_base_url, mcp_path, super_routes))
    /\ UNCHANGED <<self_base_url, mcp_path, super_routes, root_response>>
    /\ UNCHANGED <<metaVars, augVars, dcrVars, pathVars, jmapVars>>

NotFound == [status |-> 404, body |-> EmptyDict, headers |-> EmptyDict]

\* lines 164-172
RootResponse(metadata) ==
    [status |-> 200, body |-> metadata,
     headers |-> [allow_origin |-> "*", allow_methods |-> "GET, OPTIONS",
                  cache_control |-> "public, max-age=3600"]]

\* A GET of /.well-known/oauth-protected-resource is routed through the
\* table: the first route with that path answers it.
ServeRoot ==
    /\ routes # None
    /\ root_response = None
    /\ LET hits == {i \in DOMAIN routes.val : routes.val[i].path = RootPath}
       IN  root_response' =
               IF hits = {} THEN NotFound
               ELSE RootResponse(
                        routes.val[CHOOSE i \in hits : \A j \in hits : i <= j].metadata)
    /\ UNCHANGED <<self_base_url, mcp_path, super_routes, routes>>
    /\ UNCHANGED <<metaVars, augVars, dcrVars, pathVars, jmapVars>>

RouteInit ==
    /\ self_base_url \in {None} \cup {Some(u) : u \in ConfiguredUrls}
    /\ mcp_path \in {None} \cup {Some(p) : p \in McpPaths}
    /\ super_routes \in SeqsUpTo(SuperRoutes, MaxSuperRoutes)
    /\ routes = None
    /\ root_response = None
    /\ MetaIdle
    /\ AugIdle
    /\ DcrIdle
    /\ PathIdle
    /\ JmapIdle

RouteNext == GetRoutes \/ ServeRoot

SpecRoutes == RouteInit /\ [][RouteNext]_vars

\* st is s without the separators it ends with
IsStripped(s, st) ==
    /\ Len(st) <= Len(s)
    /\ \A i \in 1..Len(st) : st[i] = s[i]
    /\ st = <<>> \/ st[Len(st)] # "/"
    /\ \A i \in (Len(st) + 1)..Len(s) : s[i] = "/"

RootConfigured ==
    self_base_url # None /\ mcp_path # None /\ mcp_path.val # <<>>

\* C9: the document served at /.well-known/oauth-protected-resource has
\* resource = base URL + mount path and authorization_servers = [base URL],
\* the base URL without the separators it ends with, scopes_supported = []
\* and bearer_methods_supported = ["header"]; resource holds no doubled
\* separator, however many separators the configured base URL ends with.
ProtectedResourceMetadata ==
    /\ (root_response # None /\ RootConfigured) => root_response.status = 200
    /\ (root_response # None /\ root_response.status = 200) =>
           LET doc == root_response.body
               st == doc.authorization_servers[1]
           IN  /\ RootConfigured
               /\ Len(doc.authorization_servers) = 1
               /\ IsStripped(UrlStr(self_base_url.val), st)
               /\ doc.resource = st \o mcp_path.val
               /\ doc.scopes_supported = <<>>
               /\ doc.bearer_methods_supported = <<"header">>
               /\ ~HasDoubleSlash(doc.resource)

ProtectedResourceMetadataWitness ==
    /\ root_response # None
    /\ root_response.status = 200
    /\ self_base_url = Some(Origin \o <<"/", "/">>)
    /\ root_response.body.resource = Origin \o mcp_path.val

\* C10 as stated: the table is the base routes followed by the root
\* protected-resource route, the AS-metadata route and the DCR route, all
\* three present whatever mcp_path and base_url are.
RouteTableAllThree ==
    routes # None =>
        LET t == routes.val
            n == Len(super_routes)
        IN  /\ Len(t) = n + 3
            /\ SubSeq(t, 1, n) = super_routes
            /\ t[n + 1].path = RootPath
            /\ t[n + 2] = AsMetadataRoute
            /\ t[n + 3] = RegisterRoute

\* C10, amended: the table is the base routes, in order and unmodified,
\* followed by the root protected-resource route exactly when base_url is
\* set and mcp_path is a non-empty path, followed by the AS-metadata route
\* and the DCR route, which are there whatever mcp_path and base_url are.
RouteTableComposition ==
    routes # None =>
        LET t == routes.val
            n == Len(super_routes)
            k == IF RootConfigured THEN 1 ELSE 0
        IN  /\ Len(t) = n + k + 2
            /\ SubSeq(t, 1, n) = super_routes
            /\ RootConfigured =>
                   (t[n + 1].path = RootPath /\ t[n + 1].endpoint = "_root_protected_resource")
            /\ t[n + k + 1] = AsMetadataRoute
            /\ t[n + k + 2] = RegisterRoute

RouteTableCompositionWitness ==
    /\ routes # None
    /\ mcp_path = Some(<<>>)
    /\ self_base_url # None
    /\ Len(super_routes) = 2
    /\ Len(routes.val) = 4

-----------------------------------------------------------------------------
(* The tools (tools.py) and the JMAPClient they share (jmap_client.py).    *)
(* Every tool invocation is a task of the event loop; a task runs until it *)
(* awaits, and the other tasks run while it waits.                         *)

MaxLimit == 50

\* a limit handed on as it came
CapLimitNone(limit) == limit

\* tools.py 55, 200: limit = min(limit, 50)
CapLimit(limit) == IF limit < MaxLimit THEN limit ELSE MaxLimit

Limits == {-1, 20, 50, 51}

OptStrings == {None, Some(""), Some("x")}

\* The arguments of the tools: list_mailboxes, get_email and get_thread take
\* nothing that matters here, list_emails and search_emails take a limit,
\* search_emails takes the criteria.
SearchArgs ==
    [tool : {"search_emails"}, limit : Limits,
     query : OptStrings, from_address : OptStrings, subject : OptStrings,
     after : OptStrings, before : OptStrings,
     has_attachment : {None, Some(TRUE), Some(FALSE)}]

ToolArgs ==
    [tool : {"list_mailboxes", "get_email", "get_thread"}]
    \cup [tool : {"list_emails"}, limit : Limits]
    \cup SearchArgs

\* bool(x) of an optional string
TruthyStr(x) == x # None /\ x.val # ""

\* tools.py 203-215
FilterConditions(a) ==
    (IF TruthyStr(a.query) THEN <<[text |-> a.query.val]>> ELSE <<>>)
    \o (IF TruthyStr(a.from_address) THEN <<[from |-> a.from_address.val]>> ELSE <<>>)
    \o (IF TruthyStr(a.subject) THEN <<[subject |-> a.subject.val]>> ELSE <<>>)
    \o (IF TruthyStr(a.after) THEN <<[after |-> a.after.val \o "T00:00:00Z"]>> ELSE <<>>)
    \o (IF TruthyStr(a.before) THEN <<[before |-> a.before.val \o "T23:59:59Z"]>> ELSE <<>>)
    \o (IF a.has_attachment # None
        THEN <<[hasAttachment |-> a.has_attachment.val]>> ELSE <<>>)

\* tools.py 220-224
EmailFilter(a) ==
    IF Len(FilterConditions(a)) = 1 THEN FilterConditions(a)[1]
    ELSE [operator |-> "AND", conditions |-> FilterConditions(a)]

\* tools.py 217: if not filter_conditions
NoCriteria(a) == a.tool = "search_emails" /\ FilterConditions(a) = <<>>

NoCriteriaMessage == "Please provide at least one search criterion."

\* The method calls a tool hands to jmap.call (tools.py 19-36, 57-87,
\* 111-138, 226-255, 281-312), with the account ID it got and its limit.
MethodCalls(a, acct) ==
    IF a.tool = "list_emails"
    THEN <<[name |-> "Email/query", accountId |-> acct,
            filter |-> [inMailbox |-> "mailbox"], limit |-> CapLimit(a.limit)],
           [name |-> "Email/get", accountId |-> acct]>>
    ELSE IF a.tool = "search_emails"
    THEN <<[name |-> "Email/query", accountId |-> acct,
            filter |-> EmailFilter(a), limit |-> CapLimit(a.limit)],
           [name |-> "Email/get", accountId |-> acct]>>
    ELSE IF a.tool = "get_thread"
    THEN <<[name |-> "Thread/get", accountId |-> acct],
           [name |-> "Email/get", accountId |-> acct]>>
    ELSE IF a.tool = "get_email"
    THEN <<[name |-> "Email/get", accountId |-> acct]>>
    ELSE <<[name |-> "Mailbox/get", accountId |-> acct]>>

\* jmap_client.py 39-42
RequestBody(methods) ==
    [using |-> <<"urn:ietf:params:jmap:core", "urn:ietf:params:jmap:mail">>,
     methodCalls |-> methods]

Returned(text) == [kind |-> "returned", text |-> text]
Raised == [kind |-> "raised"]

\* What the server can answer to GET {base_url}/.well-known/jmap: a session
\* (with its accounts, possibly none) or a failure.
Sessions ==
    {[apiUrl |-> "https://api/1", accounts |-> <<"acct-1">>],
     [apiUrl |-> "https://api/2", accounts |-> <<"acct-2">>],
     [apiUrl |-> "https://api/1", accounts |-> <<>>]}

DiscoverReplies ==
    {[kind |-> "response", status |-> 200, json |-> ss] : ss \in Sessions}
    \cup {[kind |-> "response", status |-> 503, json |-> ErrorBody]}

\* What the server can answer to the POST of a request.
PostReplies ==
    {[kind |-> "response", status |-> st, json |-> EmptyDict] :
         st \in {200, 400, 401, 403, 500}}
    \cup {[kind |-> "network_error", status |-> 0, json |-> EmptyDict]}

\* jmap_client.py 21-31: _discover, from the reply to its GET on.  Line 30
\* stores the API URL, line 31 raises when the session has no account.
discover(reply, url, acc) ==
    IF raise_for_status(reply)
    THEN [api_url |-> url, account_id |-> acc, raised |-> TRUE]
    ELSE IF reply.json.accounts = <<>>
    THEN [api_url |-> Some(reply.json.apiUrl), account_id |-> acc, raised |-> TRUE]
    ELSE [api_url |-> Some(reply.json.apiUrl),
          account_id |-> Some(Head(reply.json.accounts)), raised |-> FALSE]

\* a client that also starts over on a server error
SessionErrorOrServerError(status) == status >= 400

\* jmap_client.py 50: r.status_code in (400, 401, 403)
SessionError(status) == status \in {400, 401, 403}

\* jmap_client.py 33-47: call(methods) up to its first await: the discovery
\* when no API URL is cached (line 36), else the POST
call_begin(tk, methods, url) ==
    LET tk1 == [tk EXCEPT !.body = RequestBody(methods), !.calls = @ + 1]
    IN  IF url = None
        THEN [tk1 EXCEPT !.pc = "call_get1", !.discs = @ + 1]
        ELSE [tk1 EXCEPT !.pc = "call_post1",
                         !.posts = Append(@, [url |-> url, body |-> tk1.body])]

\* A tool from the return of _ensure_account (with acct) up to its next
\* await or its return.
after_ensure(tk, acct, url) ==
    LET tk1 == [tk EXCEPT !.acct = acct]
    IN  IF NoCriteria(tk.args)
        THEN [tk1 EXCEPT !.pc = "done", !.result = Returned(NoCriteriaMessage)]
        ELSE call_begin(tk1, MethodCalls(tk.args, acct), url)

\* A tool is invoked: tools.py 6-13, _ensure_account returns the cached
\* account ID at once, or opens a client and awaits the discovery.
Invoke(t, a) ==
    /\ task[t].pc = "idle"
    /\ task' = [task EXCEPT ![t] =
                    IF account_id = None
                    THEN [NewTask(a) EXCEPT !.pc = "ensure_get"]
                    ELSE after_ensure(NewTask(a), account_id, api_url)]
    /\ UNCHANGED <<api_url, account_id>>
    /\ UNCHANGED <<metaVars, augVars, dcrVars, pathVars, routeVars>>

\* tools.py 11-12: the discovery of _ensure_account answers; on success the
\* task goes on to close its client (the end of the async with), which is
\* an await.
EnsureDiscovered(t, reply) ==
    /\ task[t].pc = "ensure_get"
    /\ LET d == discover(reply, api_url, account_id)
       IN  /\ api_url' = d.api_url
           /\ account_id' = d.account_id
           /\ task' = [task EXCEPT ![t] =
                           IF d.raised
                           THEN [@ EXCEPT !.pc = "done", !.result = Raised]
                           ELSE [@ EXCEPT !.pc = "ensure_close"]]
    /\ UNCHANGED <<metaVars, augVars, dcrVars, pathVars, routeVars>>

\* tools.py 13: the client is closed, _ensure_account returns
\* jmap.account_id as it is now, and the tool goes on.
EnsureClosed(t) ==
    /\ task[t].pc = "ensure_close"
    /\ task' = [task EXCEPT ![t] = after_ensure(@, account_id, api_url)]
    /\ UNCHANGED <<api_url, account_id>>
    /\ UNCHANGED <<metaVars, augVars, dcrVars, pathVars, routeVars>>

\* jmap_client.py 37-47 and 53-58: a discovery of call answers, and call
\* POSTs the body to the API URL just stored.
CallDiscovered(t, reply) ==
    /\ task[t].pc \in {"call_get1", "call_get2"}
    /\ LET d == discover(reply, api_url, account_id)
           tk == task[t]
       IN  /\ api_url' = d.api_url
           /\ account_id' = d.account_id
           /\ task' = [task EXCEPT ![t] =
                  IF d.raised
                  THEN [tk EXCEPT !.pc = "done", !.result = Raised]
                  ELSE [tk EXCEPT
                           !.pc = IF tk.pc = "call_get1" THEN "call_post1" ELSE "call_post2",
                           !.redisc = IF tk.pc = "call_get2" THEN d.api_url ELSE @,
                           !.posts = Append(@, [url |-> d.api_url, body |-> tk.body])]]
    /\ UNCHANGED <<metaVars, augVars, dcrVars, pathVars, routeVars>>

\* jmap_client.py 43-61: a POST of call answers.  After the first POST a
\* session error clears the cache and starts the rediscovery (lines 50-53);
\* otherwise, and after the second POST, raise_for_status decides.
CallPosted(t, reply) ==
    /\ task[t].pc \in {"call_post1", "call_post2"}
    /\ LET tk == task[t]
           tk1 == [tk EXCEPT !.statuses = Append(@, reply.status)]
       IN  IF reply.kind = "network_error"
           THEN /\ task' = [task EXCEPT ![t] = [tk EXCEPT !.pc = "done", !.result = Raised]]
                /\ UNCHANGED <<api_url, account_id>>
           ELSE IF tk.pc = "call_post1" /\ SessionError(reply.status)
           THEN /\ api_url' = None
                /\ account_id' = None
                /\ task' = [task EXCEPT ![t] =
                                [tk1 EXCEPT !.pc = "call_get2", !.discs = @ + 1]]
           ELSE /\ task' = [task EXCEPT ![t] =
                                [tk1 EXCEPT !.pc = "done",
                                            !.result = IF raise_for_status(reply)
                                                       THEN Raised
                                                       ELSE Returned("results")]]
                /\ UNCHANGED <<api_url, account_id>>
    /\ UNCHANGED <<metaVars, augVars, dcrVars, pathVars, routeVars>>

\* The tool has returned or raised: its coroutine is over and its locals are
\* gone.
Finish(t) ==
    /\ task[t].pc = "done"
    /\ task' = [task EXCEPT ![t] = NewTask([tool |-> "list_mailboxes"])]
    /\ UNCHANGED <<api_url, account_id>>
    /\ UNCHANGED <<metaVars, augVars, dcrVars, pathVars, routeVars>>

JmapInit ==
    /\ JmapIdle
    /\ MetaIdle
    /\ AugIdle
    /\ DcrIdle
    /\ PathIdle
    /\ RouteIdle

\* the steps of task t, invoked with arguments of args, when the server
\* answers a discovery with one of discovered and a POST with one of posted
TaskNext(t, args, discovered, posted) ==
    \/ \E a \in args : Invoke(t, a)
    \/ \E reply \in discovered : EnsureDiscovered(t, reply)
    \/ EnsureClosed(t)
    \/ \E reply \in discovered : CallDiscovered(t, reply)
    \/ \E reply \in posted : CallPosted(t, reply)
    \/ Finish(t)

\* One call of a tool after the other, against every answer of the server.
CallNext == TaskNext(1, {[tool |-> "list_mailboxes"]}, DiscoverReplies, PostReplies)

SpecCall == JmapInit /\ [][CallNext]_vars

\* the answers that matter to the cached session: a session, a session
\* without accounts, a failed discovery; a result, a session error
SessionReplies ==
    {r \in DiscoverReplies : r.status = 200 => r.json.apiUrl = "https://api/1"}

SessionPostReplies == {r \in PostReplies : r.status \in {200, 401}}

\* One tool invocation after the other, with every argument.
ToolsNext == TaskNext(1, ToolArgs, SessionReplies, SessionPostReplies)

SpecTools == JmapInit /\ [][ToolsNext]_vars

\* Concurrent tool invocations on the module-level client (tools.py 3).
JmapNext ==
    \E t \in Tasks :
        TaskNext(t, {[tool |-> "list_mailboxes"]}, SessionReplies, SessionPostReplies)

SpecJmap == JmapInit /\ [][JmapNext]_vars

\* C12: a call of JMAPClient.call sends at most two POSTs and makes at most
\* two discoveries.  It rediscovers only after a first POST answered 400,
\* 401 or 403, with api_url and account_id cleared before the rediscovery;
\* it then POSTs the same body once more, to the API URL just discovered,
\* and a failing status of that second POST is raised to the caller.  Any
\* other first status ends the call without a rediscovery.
CallRetriesOnce ==
    \A t \in Tasks :
        LET tk == task[t]
            retried == Len(tk.statuses) >= 1 /\ tk.statuses[1] \in {400, 401, 403}
        IN  /\ Len(tk.posts) <= 2
            /\ tk.discs <= 2
            /\ tk.calls <= 1
            /\ Len(tk.statuses) <= Len(tk.posts)
            /\ tk.pc = "call_get2" => (retried /\ api_url = None /\ account_id = None)
            /\ (tk.discs = 2 \/ tk.redisc # None \/ Len(tk.posts) = 2) => retried
            /\ Len(tk.posts) = 2 =>
                   /\ tk.redisc # None
                   /\ tk.posts[2] = [url |-> tk.redisc, body |-> tk.posts[1].body]
            /\ (retried /\ tk.pc = "done" /\ tk.redisc # None) => Len(tk.posts) = 2
            /\ (Len(tk.statuses) >= 1 /\ ~retried) =>
                   (tk.pc = "done" /\ Len(tk.posts) = 1 /\ tk.redisc = None)
            /\ (Len(tk.statuses) = 2 /\ tk.statuses[2] \notin 200..299) =>
                   (tk.pc = "done" /\ tk.result = Raised)

\* a call whose first POST got 401, that rediscovered another API URL, sent
\* the body there and got 403, which it raised
CallRetriesOnceWitness ==
    LET tk == task[1]
    IN  /\ tk.pc = "done"
        /\ tk.statuses = <<401, 403>>
        /\ Len(tk.posts) = 2
        /\ tk.posts[1].url # tk.posts[2].url
        /\ tk.posts[1].body = tk.posts[2].body
        /\ tk.result = Raised

\* C13: a search_emails whose query, from_address, subject, after and
\* before are absent or empty and whose has_attachment is None ends by
\* returning "Please provide at least one search criterion.", without a call
\* of jmap.call.
SearchNoCriteria ==
    \A t \in Tasks :
        LET tk == task[t]
            a == tk.args
            blank(x) == x = None \/ x = Some("")
        IN  (/\ tk.pc = "done"
             /\ a.tool = "search_emails"
             /\ blank(a.query) /\ blank(a.from_address) /\ blank(a.subject)
             /\ blank(a.after) /\ blank(a.before)
             /\ a.has_attachment = None)
            => (tk.result = Returned(NoCriteriaMessage) /\ tk.calls = 0)

\* C14: the limit list_emails and search_emails send in Email/query is the
\* smaller of the limit they were given and 50, in every POST of the request.
LimitCapped ==
    \A t \in Tasks :
        LET tk == task[t]
        IN  tk.args.tool \in {"list_emails", "search_emails"} =>
                \A i \in 1..Len(tk.posts) :
                    LET sent == tk.posts[i].body.methodCalls[1]
                    IN  /\ sent.name = "Email/query"
                        /\ sent.limit <= 50
                        /\ sent.limit <= tk.args.limit
                        /\ sent.limit = 50 \/ sent.limit = tk.args.limit

\* a search for subject "x" with limit 51 that was retried: both POSTs ask
\* for 50
LimitCappedWitness ==
    LET tk == task[1]
    IN  /\ tk.args.tool = "search_emails"
        /\ tk.args.limit = 51
        /\ tk.args.subject = Some("x")
        /\ Len(tk.posts) = 2
        /\ tk.posts[1].body.methodCalls[1].limit = 50
        /\ tk.posts[2].body.methodCalls[1].limit = 50

\* C15: whatever the interleaving of the tasks, the account ID that
\* _ensure_account returned to a tool is not None.
EnsureAccountNotNone ==
    \A t \in Tasks : task[t].acct # Unset => task[t].acct # None

\* C16: whenever no discovery is in progress, api_url and account_id are
\* both set or both unset.
SessionCachePaired ==
    (\A t \in Tasks : task[t].pc \notin {"ensure_get", "call_get1", "call_get2"})
        => (api_url = None <=> account_id = None)

====
